---- MODULE Spec2Model ----
(***************************************************************************)
(* Model of the render job orchestrator of ClineReel: the job registry and *)
(* the two background pipelines of src/api.py, the render drivers of       *)
(* src/sandbox/render.py, Asset Placement (src/sandbox/assets.py) and the  *)
(* audio orchestrator (src/sandbox/audio.py).                              *)
(*                                                                         *)
(* Text is modelled as a sequence of fragments.  File names, paths and     *)
(* asset values are sequences of one-character fragments, so that          *)
(* startswith, replace, basename and strip are computed as Python computes *)
(* them.  Messages are sequences of longer fragments (the literal parts of *)
(* an f-string and the formatted values).                                  *)
(***************************************************************************)
EXTENDS Integers, Sequences, FiniteSets, TLC

\* The service: render mode, project directory, job registry, background
\* tasks, event loop, work directories, outputs/, the templated project's
\* out/ and configuration files (path to the job whose props it holds), the
\* response of the last handler call.
VARIABLES mode, projectDir, jobs, task, loop, work, outputs, projOut, signal, resp

\* Output naming: the identifiers of two jobs and the names derived for them.
VARIABLES nameIds, nameOut

\* Asset Placement: the configuration record, the network, the outcome of
\* file writes, and one entry per completed pass.
VARIABLES props, net, wr, passes

\* Audio step of the agentic driver: the storyboard, the outcome of each
\* scene's synthesis, the synthesis calls made, the step's result and the
\* driver's position.
VARIABLES sb, tts, ttsCalls, audioRes, apc

\* prepare_background_music called on its own: its arguments with the state
\* of the file system, and its result.
VARIABLES mus, musRes

serviceVars == <<mode, projectDir, jobs, task, loop, work, outputs, projOut, signal, resp>>
nameVars == <<nameIds, nameOut>>
assetVars == <<props, net, wr, passes>>
audioVars == <<sb, tts, ttsCalls, audioRes, apc>>
musicVars == <<mus, musRes>>

vars == <<serviceVars, nameVars, assetVars, audioVars, musicVars>>

(***************************************************************************)
(* Bounds of the model.                                                    *)
(***************************************************************************)
MaxExitCode == 1

(***************************************************************************)
(* Text helpers.                                                           *)
(***************************************************************************)
\* Python None, as a value distinct from every text of the model.
None == <<"<None>">>

StartsWith(s, p) == Len(s) >= Len(p) /\ SubSeq(s, 1, Len(p)) = p

EndsWith(s, p) == Len(s) >= Len(p) /\ SubSeq(s, Len(s) - Len(p) + 1, Len(s)) = p

\* `p in s` for texts: p occurs as a contiguous run of fragments.
Contains(s, p) == \E i \in 1..(Len(s) - Len(p) + 1) : SubSeq(s, i, i + Len(p) - 1) = p

\* str.replace(p, r): leftmost non-overlapping occurrences.
\* (The singleton set binds the text x once at every level.)
RECURSIVE Replace(_, _, _)
Replace(s, p, r) ==
    CHOOSE out \in
        {IF Len(x) = 0 \/ Len(p) = 0 THEN x
         ELSE IF StartsWith(x, p) THEN r \o Replace(SubSeq(x, Len(p) + 1, Len(x)), p, r)
         ELSE <<x[1]>> \o Replace(SubSeq(x, 2, Len(x)), p, r) : x \in {s}} : TRUE

\* os.path.basename: what follows the last "/".
RECURSIVE Basename(_)
Basename(path) ==
    CHOOSE out \in
        {IF \E i \in 1..Len(x) : x[i] = "/"
         THEN Basename(SubSeq(x, (CHOOSE i \in 1..Len(x) : x[i] = "/") + 1, Len(x)))
         ELSE x : x \in {path}} : TRUE

\* str(n) for the small integers of the model.
Digit(n) == <<"0", "1", "2", "3", "4", "5", "6", "7", "8", "9">>[n + 1]

TempPropsPrefix == <<"t", "e", "m", "p", "_", "p", "r", "o", "p", "s", "_">>
ShowcaseProps == <<"s", "h", "o", "w", "c", "a", "s", "e", "-", "p", "r", "o", "p", "s">>
DotJson == <<".", "j", "s", "o", "n">>
DotMp4 == <<".", "m", "p", "4">>
VideoPrefix == <<"v", "i", "d", "e", "o", "_">>
OutputsDir == <<"o", "u", "t", "p", "u", "t", "s", "/">>
MotionforgeMp4 == <<"m", "o", "t", "i", "o", "n", "f", "o", "r", "g", "e">> \o DotMp4
RenderedVideoMp4 == <<"r", "e", "n", "d", "e", "r", "e", "d", "_", "v", "i", "d", "e", "o">> \o DotMp4

\* An output name that keeps only the first character of the identifier.
OutputNameFirstChar(local_props_path) ==
    LET basename == Basename(local_props_path)
        job_id == Replace(Replace(basename, TempPropsPrefix, <<>>), DotJson, <<>>)
    IN  VideoPrefix \o SubSeq(job_id, 1, 1) \o DotMp4

\* render.py _output_name_from_props
OutputNameFromProps(local_props_path) ==
    LET basename == Basename(local_props_path)
    IN  IF Contains(basename, TempPropsPrefix)
        THEN VideoPrefix \o Replace(Replace(basename, TempPropsPrefix, <<>>), DotJson, <<>>) \o DotMp4
        ELSE IF Contains(basename, ShowcaseProps) THEN MotionforgeMp4
        ELSE RenderedVideoMp4

\* api.py: os.path.abspath(f"outputs/temp_props_{job_id}.json"), relative to the
\* working directory of the service.
PropsPath(job_id) == <<"/", "s", "r", "v", "/">> \o OutputsDir \o TempPropsPrefix \o job_id \o DotJson

\* One work directory for all jobs.
WorkJobIdFixed(local_props_path) == <<"a", "7">>

\* render.py _render_agentic: the job identifier recovered from the props path.
WorkJobId(local_props_path) ==
    Replace(Replace(Basename(local_props_path), TempPropsPrefix, <<>>), DotJson, <<>>)

(***************************************************************************)
(* Job identifiers: str(uuid.uuid4())[:8] is eight hexadecimal digits.     *)
(* The model keeps two such identifiers, two characters long, so at most   *)
(* two jobs are submitted.  A uuid4 is taken to be fresh: generate() draws *)
(* an identifier no record has.                                            *)
(***************************************************************************)
JobIds == {<<"a", "7">>, <<"7", "a">>}

\* generate() without the freshness of uuid4: any identifier.
AnyJobId(reg) == JobIds

NewJobIds(reg) == JobIds \ DOMAIN reg

ExitCodes == 0..MaxExitCode

\* The event loop is held by no task.
Free == <<"free">>

(***************************************************************************)
(* The job registry (api.py: jobs) and _update_job.                        *)
(***************************************************************************)
\* A record registered as already scraping.
NewJobRecordScraping ==
    [status |-> "processing", stage |-> "scraping", stage_detail |-> <<"Starting...">>,
     video_path |-> None, message |-> None]

NewJobRecord ==
    [status |-> "processing", stage |-> "queued", stage_detail |-> <<"Starting...">>,
     video_path |-> None, message |-> None]

\* api.py _update_job: a no-op for an unknown id, else dict.update(kwargs).
UpdateJob(reg, job_id, kwargs) ==
    IF job_id \in DOMAIN reg
    THEN [reg EXCEPT ![job_id] =
            [k \in DOMAIN reg[job_id] |->
                IF k \in DOMAIN kwargs THEN kwargs[k] ELSE reg[job_id][k]]]
    ELSE reg

(***************************************************************************)
(* Per-task bookkeeping.  pc is the position of the background task, rc    *)
(* the exit code of its subprocess (-1 while it runs), raisedAt the step   *)
(* whose exception ended the task, err the text of that exception, steps   *)
(* the pipeline steps the task has executed, stages the stage values       *)
(* written to the job's record so far, audio_metadata and                  *)
(* background_music_file the locals of _render_agentic, brief what         *)
(* TASK_BRIEF.md lists, found the file output discovery selected, cleanup  *)
(* the outcome of the final rmtree.                                        *)
(***************************************************************************)
NewTask ==
    [pc |-> "queued", rc |-> -1, raisedAt |-> "none", err |-> None, steps |-> <<>>,
     stages |-> <<"queued">>,
     audio_metadata |-> "empty", background_music_file |-> None,
     brief |-> [voiceovers |-> "unwritten", music |-> None],
     found |-> None, cleanup |-> "none", replaced |-> FALSE]

ScrapingFailed == <<"Scraping failed", ": Could not retrieve data from website.">>
ProjectNotFound == <<"Remotion project not found at ", "~/remotion-demo-2", ". Clone it first">>
RenderFailed(code) == <<"Remotion render failed with exit code ", Digit(code)>>
NoMp4Found == <<"No .mp4 files found in ", "out">>
OutDirNotFound == <<"Output directory not found: ", "out">>
NoSuchFile == <<"[Errno 2] No such file or directory: ", "out/">>
RmtreeError == <<"[Errno 13] Permission denied: ", "work">>

\* str(e) of an exception raised by a collaborator (analysis, direction,
\* storyboard); a bare exception has the empty text.
CollaboratorErrors == {<<"Connection error.">>, <<>>}

BackgroundMusicMp3 == <<"background_music.mp3">>

\* Files other than the expected one that the agent may leave in out/.
FinalMp4 == <<"f", "i", "n", "a", "l">> \o DotMp4
DraftMp4 == <<"d", "r", "a", "f", "t">> \o DotMp4
NotesTxt == <<"n", "o", "t", "e", "s", ".", "t", "x", "t">>

OutputName(job_id) == OutputNameFromProps(PropsPath(job_id))

\* What the agent may leave in out/ of its work directory, oldest first.
AgentOutDirs(job_id) ==
    LET e == OutputName(job_id)
    IN  {<<>>, <<e>>, <<FinalMp4>>, <<NotesTxt>>, <<DraftMp4, FinalMp4>>,
         <<e, FinalMp4>>, <<FinalMp4, e>>}

\* render.py: os.path.join(agentic_base, f"work-{job_id}")
WorkDir(job_id) == <<"~/.remotion-agentic", "/", "work-">> \o job_id

NoWorkDir == [exists |-> FALSE, outdir |-> FALSE, out |-> <<>>, stale |-> FALSE]
StaleWorkDir == [exists |-> TRUE, outdir |-> TRUE, out |-> <<DraftMp4>>, stale |-> TRUE]
FreshWorkDir == [exists |-> TRUE, outdir |-> TRUE, out |-> <<>>, stale |-> FALSE]

\* A working copy laid over whatever directory is already at the path.
WorkingCopyOver(old) == IF old.exists THEN old ELSE FreshWorkDir

\* render.py: rmtree of an existing work_dir, copytree ignoring "out" (and
\* node_modules, .git), then makedirs(work_dir/out): the directory that the
\* setup leaves at the path, whatever was there before.
WorkingCopy(old) == FreshWorkDir

\* api.py: video_path=f"/api/outputs/{os.path.basename(video_path)}"
ApiVideoPath(local_video_path) == <<"/api/outputs/">> \o Basename(local_video_path)

\* A stored path that ignores the output name of the job.
LocalVideoPathDefaultName(output_name) == <<"/", "s", "r", "v", "/">> \o OutputsDir \o RenderedVideoMp4

\* render.py: os.path.abspath(f"outputs/{output_name}")
LocalVideoPath(output_name) == <<"/", "s", "r", "v", "/">> \o OutputsDir \o output_name

\* The variables of a part of the model that a specification does not run.
IdleService ==
    /\ mode = "templated" /\ projectDir = TRUE /\ jobs = <<>> /\ task = <<>> /\ loop = Free
    /\ work = <<>> /\ outputs = <<>> /\ projOut = {} /\ signal = <<>> /\ resp = None
IdleNames == nameIds = <<>> /\ nameOut = <<>>
IdleAssets == props = <<>> /\ net = <<>> /\ wr = "ok" /\ passes = <<>>
IdleAudio == sb = <<>> /\ tts = <<>> /\ ttsCalls = <<>> /\ audioRes = <<>> /\ apc = "idle"
IdleMusic == mus = <<>> /\ musRes = <<>>

Init ==
    /\ IdleNames /\ IdleAssets /\ IdleAudio /\ IdleMusic
    /\ mode \in {"templated", "agentic"}
    /\ projectDir \in BOOLEAN
    /\ jobs = <<>>
    /\ task = <<>>
    /\ loop = Free
    /\ \E stale \in SUBSET {<<"a", "7">>} :
          work = [id \in JobIds |-> IF id \in stale /\ mode = "agentic" THEN StaleWorkDir ELSE NoWorkDir]
    /\ outputs = <<>>
    /\ projOut = {}
    /\ signal = <<>>
    /\ resp = None

(***************************************************************************)
(* api.py generate and get_status.                                         *)
(***************************************************************************)
Submit ==
    /\ loop = Free
    /\ \E job_id \in NewJobIds(jobs) :
          /\ jobs' = (job_id :> NewJobRecord) @@ jobs
          /\ task' = (job_id :> NewTask) @@ task
          /\ resp' = <<"generate", job_id, "processing">>
    /\ UNCHANGED <<nameVars, assetVars, audioVars, musicVars, mode, projectDir, loop, work, outputs, projOut, signal>>

\* A status query that registers the identifiers it does not know.
GetStatusSetdefault ==
    /\ loop = Free
    /\ \E job_id \in JobIds :
          /\ jobs' = IF job_id \in DOMAIN jobs THEN jobs ELSE (job_id :> NewJobRecord) @@ jobs
          /\ resp' = <<"status", job_id, jobs'[job_id]>>
    /\ UNCHANGED <<nameVars, assetVars, audioVars, musicVars, mode, projectDir, task, loop, work, outputs, projOut, signal>>

GetStatus ==
    /\ loop = Free
    /\ \E job_id \in JobIds :
          resp' = IF job_id \notin DOMAIN jobs
                  THEN <<"status", job_id, "404">>
                  ELSE <<"status", job_id, jobs[job_id]>>
    /\ UNCHANGED <<nameVars, assetVars, audioVars, musicVars, mode, projectDir, jobs, task, loop, work, outputs, projOut, signal>>

(***************************************************************************)
(* The except clause of both pipelines, and the step bookkeeping.          *)
(***************************************************************************)
\* An except clause that also stamps the stage.
FailedStampsStage(reg, job_id, e) ==
    UpdateJob(reg, job_id, [status |-> "failed", stage |-> "failed", message |-> e,
                            stage_detail |-> <<"Error: ">> \o e])

\* An except clause that records no message for an exception without text.
FailedDropsEmptyMessage(reg, job_id, e) ==
    UpdateJob(reg, job_id, [status |-> "failed", message |-> IF e = <<>> THEN None ELSE e,
                            stage_detail |-> <<"Error: ">> \o e])

Failed(reg, job_id, e) ==
    UpdateJob(reg, job_id, [status |-> "failed", message |-> e, stage_detail |-> <<"Error: ">> \o e])

\* A failing task that keeps the event loop to itself.
RaiseKeepsLoop(t, step, e) ==
    /\ jobs' = Failed(jobs, t, e)
    /\ task' = [task EXCEPT ![t].pc = "failed", ![t].raisedAt = step, ![t].err = e,
                            ![t].steps = Append(@, step)]
    /\ loop' = loop

Raise(t, step, e) ==
    /\ jobs' = Failed(jobs, t, e)
    /\ task' = [task EXCEPT ![t].pc = "failed", ![t].raisedAt = step, ![t].err = e,
                            ![t].steps = Append(@, step)]
    /\ loop' = Free

\* A final update that leaves the stage as it was.
CompletedKeepsStage(reg, job_id, video_path) ==
    UpdateJob(reg, job_id,
        [status |-> "completed", stage_detail |-> <<"Video ready!">>,
         video_path |-> ApiVideoPath(video_path), message |-> <<"Render successful">>])

Completed(reg, job_id, video_path) ==
    UpdateJob(reg, job_id,
        [status |-> "completed", stage |-> "done", stage_detail |-> <<"Video ready!">>,
         video_path |-> ApiVideoPath(video_path), message |-> <<"Render successful">>])

SetStage(reg, job_id, stage, detail) ==
    UpdateJob(reg, job_id, [stage |-> stage, stage_detail |-> detail])

SetDetail(reg, job_id, detail) == UpdateJob(reg, job_id, [stage_detail |-> detail])

(***************************************************************************)
(* Stages 1 and 2, the same in both pipelines.                             *)
(***************************************************************************)
StartTask(t) ==
    /\ loop = Free
    /\ task[t].pc = "queued"
    /\ jobs' = SetStage(jobs, t, "scraping", <<"Scraping website content...">>)
    /\ task' = [task EXCEPT ![t].pc = "scraping", ![t].stages = Append(@, "scraping")]
    /\ loop' = t
    /\ UNCHANGED <<nameVars, assetVars, audioVars, musicVars, mode, projectDir, work, outputs, projOut, signal, resp>>

Scrape(t) ==
    /\ loop = t
    /\ task[t].pc = "scraping"
    /\ \E scraped_data \in {"none", "data"} :
          IF scraped_data = "none"
          THEN Raise(t, "scraping", ScrapingFailed)
          ELSE /\ jobs' = SetStage(SetDetail(jobs, t, <<"Scraped '", "title", "'">>), t, "analyzing",
                                   IF mode = "agentic" THEN <<"Analyst AI extracting key insights...">>
                                   ELSE <<"AI analyzing website content...">>)
               /\ task' = [task EXCEPT ![t].pc = "analyzing", ![t].steps = Append(@, "scraping"),
                                       ![t].stages = Append(@, "analyzing")]
               /\ loop' = loop
    /\ UNCHANGED <<nameVars, assetVars, audioVars, musicVars, mode, projectDir, work, outputs, projOut, signal, resp>>

Analyze(t) ==
    /\ loop = t
    /\ task[t].pc = "analyzing"
    /\ \/ \E e \in CollaboratorErrors : Raise(t, "analyzing", e)
       \/ /\ jobs' = IF mode = "agentic"
                     THEN SetStage(SetDetail(jobs, t, <<"Hook: ", "hook", "...">>), t, "storyboarding",
                                   <<"Creative Director designing storyboard...">>)
                     ELSE SetStage(SetDetail(jobs, t, <<"Hook: ", "hook", "...">>), t, "generating",
                                   <<"Generating video props...">>)
          /\ task' = [task EXCEPT ![t].pc = IF mode = "agentic" THEN "storyboarding" ELSE "generating",
                                  ![t].steps = Append(@, "analyzing"),
                                  ![t].stages = Append(@, IF mode = "agentic" THEN "storyboarding"
                                                          ELSE "generating")]
          /\ loop' = loop
    /\ UNCHANGED <<nameVars, assetVars, audioVars, musicVars, mode, projectDir, work, outputs, projOut, signal, resp>>

(***************************************************************************)
(* Templated pipeline: stage 3 (props) and stage 4 (render_video ->        *)
(* _render_templated).                                                     *)
(***************************************************************************)
Direct(t) ==
    /\ mode = "templated"
    /\ loop = t
    /\ task[t].pc = "generating"
    /\ \/ /\ \E e \in CollaboratorErrors : Raise(t, "generating", e)
          /\ UNCHANGED outputs
       \/ /\ outputs' = (Basename(PropsPath(t)) :> [kind |-> "props", job |-> t, from |-> None]) @@ outputs
          /\ jobs' = SetStage(SetDetail(jobs, t, <<"Props ready for '", "name", "'">>), t, "rendering",
                              <<"Rendering video from template...">>)
          /\ task' = [task EXCEPT ![t].pc = "rendering", ![t].steps = Append(@, "generating"),
                                  ![t].stages = Append(@, "rendering")]
          /\ loop' = loop
    /\ UNCHANGED <<nameVars, assetVars, audioVars, musicVars, mode, projectDir, work, projOut, signal, resp>>

\* A configuration file of its own for every job.
RemotePropsPathPerJob(job_id) ==
    <<"~/remotion-demo-2", "/src/configs/">> \o job_id \o <<".json">>

\* _render_templated: os.path.join(project_dir, "src", "configs",
\* "signal.json"), the file named in --props; the same for every job.
RemotePropsPath(job_id) == <<"~/remotion-demo-2", "/src/configs/", "signal.json">>

\* _render_templated up to the first await: the project check, Asset
\* Placement, the props written back, signal.json overwritten, the renderer
\* subprocess created.
RenderTemplatedStart(t) ==
    /\ mode = "templated"
    /\ loop = t
    /\ task[t].pc = "rendering"
    /\ IF ~projectDir
       THEN Raise(t, "rendering", ProjectNotFound) /\ UNCHANGED signal
       ELSE /\ signal' = (RemotePropsPath(t) :> t) @@ signal
            /\ task' = [task EXCEPT ![t].pc = "proc"]
            /\ loop' = Free
            /\ UNCHANGED jobs
    /\ UNCHANGED <<nameVars, assetVars, audioVars, musicVars, mode, projectDir, work, outputs, projOut, resp>>

\* The renderer subprocess ends: an exit code, and out/<output_name> written
\* or not.
RendererExit(t) ==
    /\ mode = "templated"
    /\ task[t].pc = "proc"
    /\ task[t].rc = -1
    /\ \E code \in ExitCodes, wrote \in BOOLEAN :
          /\ task' = [task EXCEPT ![t].rc = code]
          /\ projOut' = IF wrote THEN projOut \cup {OutputName(t)} ELSE projOut
    /\ UNCHANGED <<nameVars, assetVars, audioVars, musicVars, mode, projectDir, jobs, loop, work, outputs, signal, resp>>

\* An exit-code test that catches only codes above 1.
RenderExitFatalAboveOne(returncode) == returncode > 1

\* _render_templated: `if proc.returncode != 0`.
RenderExitFatal(returncode) == returncode # 0

\* _render_templated after proc.wait(), and the end of process_video_templated.
RenderTemplatedFinish(t) ==
    /\ mode = "templated"
    /\ loop = Free
    /\ task[t].pc = "proc"
    /\ task[t].rc # -1
    /\ \E output_name \in {OutputNameFromProps(PropsPath(t))} :
           IF RenderExitFatal(task[t].rc)
           THEN Raise(t, "rendering", RenderFailed(task[t].rc)) /\ UNCHANGED outputs
           ELSE IF output_name \notin projOut
           THEN Raise(t, "rendering", NoSuchFile) /\ UNCHANGED outputs
           ELSE /\ outputs' = (output_name :> [kind |-> "video", job |-> t, from |-> output_name])
                                  @@ outputs
                /\ jobs' = Completed(jobs, t, LocalVideoPath(output_name))
                /\ task' = [task EXCEPT ![t].pc = "done", ![t].steps = Append(@, "rendering"),
                                        ![t].stages = Append(@, "done"),
                                        ![t].found = output_name]
                /\ loop' = Free
    /\ UNCHANGED <<nameVars, assetVars, audioVars, musicVars, mode, projectDir, work, projOut, signal, resp>>

(***************************************************************************)
(* Agentic pipeline: stage 3 (storyboard), then render_video ->            *)
(* _render_agentic.                                                        *)
(***************************************************************************)
Storyboard(t) ==
    /\ mode = "agentic"
    /\ loop = t
    /\ task[t].pc = "storyboarding"
    /\ \/ \E e \in CollaboratorErrors : Raise(t, "storyboarding", e)
       \/ /\ jobs' = SetStage(
                        SetStage(SetDetail(jobs, t, <<"3", " scenes, ", "20", "s video">>),
                                 t, "generating_audio", <<"Generating voiceover with ElevenLabs...">>),
                        t, "rendering", <<"Cline is building the video from scratch...">>)
          /\ task' = [task EXCEPT ![t].pc = "rendering", ![t].steps = Append(@, "storyboarding"),
                                  ![t].stages = @ \o <<"generating_audio", "rendering">>]
          /\ loop' = loop
    /\ UNCHANGED <<nameVars, assetVars, audioVars, musicVars, mode, projectDir, work, outputs, projOut, signal, resp>>

\* A setup that also writes the job's configuration into the project.
AgenticSetupWritesConfig(t) ==
    /\ mode = "agentic"
    /\ loop = t
    /\ task[t].pc = "rendering"
    /\ \E job_id \in {WorkJobId(PropsPath(t))} :
           IF ~projectDir
           THEN Raise(t, "rendering", ProjectNotFound) /\ UNCHANGED <<work, signal>>
           ELSE \/ /\ work[job_id].exists
                   /\ Raise(t, "rendering", RmtreeError)
                   /\ UNCHANGED <<work, signal>>
                \/ /\ work' = [work EXCEPT ![job_id] = WorkingCopy(work[job_id])]
                   /\ signal' = (RemotePropsPath(t) :> t) @@ signal
                   /\ task' = [task EXCEPT ![t].pc = "audio", ![t].replaced = work[job_id].exists]
                   /\ UNCHANGED <<jobs, loop>>
    /\ UNCHANGED <<nameVars, assetVars, audioVars, musicVars, mode, projectDir, outputs, projOut, resp>>

\* _render_agentic step 1: the project check and the fresh working copy.
AgenticSetup(t) ==
    /\ mode = "agentic"
    /\ loop = t
    /\ task[t].pc = "rendering"
    /\ \E job_id \in {WorkJobId(PropsPath(t))} :
           IF ~projectDir
           THEN Raise(t, "rendering", ProjectNotFound) /\ UNCHANGED work
           ELSE \/ /\ work[job_id].exists
                   /\ Raise(t, "rendering", RmtreeError)
                   /\ UNCHANGED work
                \/ /\ work' = [work EXCEPT ![job_id] = WorkingCopy(work[job_id])]
                   /\ task' = [task EXCEPT ![t].pc = "audio", ![t].replaced = work[job_id].exists]
                   /\ UNCHANGED <<jobs, loop>>
    /\ UNCHANGED <<nameVars, assetVars, audioVars, musicVars, mode, projectDir, outputs, projOut, signal, resp>>

\* _render_agentic step 3.  The storyboard handed over by the pipeline is a
\* VideoStoryboard, whose scenes carry no voiceover_script, so the voiceover
\* list is empty; the music step returns a file, returns nothing, or raises.
AgenticAudio(t) ==
    /\ mode = "agentic"
    /\ loop = t
    /\ task[t].pc = "audio"
    /\ \E music \in {"file", "none", "raise"} :
          task' = [task EXCEPT ![t].pc = "brief",
                               ![t].audio_metadata = "empty",
                               ![t].background_music_file =
                                   IF music = "file" THEN BackgroundMusicMp3 ELSE None]
    /\ UNCHANGED <<nameVars, assetVars, audioVars, musicVars, mode, projectDir, jobs, loop, work, outputs, projOut, signal, resp>>

\* _render_agentic step 4: TASK_BRIEF.md written, the agent subprocess created.
AgenticLaunch(t) ==
    /\ mode = "agentic"
    /\ loop = t
    /\ task[t].pc = "brief"
    /\ task' = [task EXCEPT ![t].pc = "proc",
                            ![t].brief = [voiceovers |-> task[t].audio_metadata,
                                          music |-> task[t].background_music_file]]
    /\ loop' = Free
    /\ UNCHANGED <<nameVars, assetVars, audioVars, musicVars, mode, projectDir, jobs, work, outputs, projOut, signal, resp>>

\* The agent subprocess ends: an exit code, and whatever it left in out/ (it
\* may also have removed out/).
AgentExit(t) ==
    /\ mode = "agentic"
    /\ task[t].pc = "proc"
    /\ task[t].rc = -1
    /\ \E job_id \in {WorkJobId(PropsPath(t))} :
           \E code \in ExitCodes :
              /\ task' = [task EXCEPT ![t].rc = code]
              /\ \/ \E out \in AgentOutDirs(t) : work' = [work EXCEPT ![job_id].out = out]
                 \/ work' = [work EXCEPT ![job_id].outdir = FALSE]
    /\ UNCHANGED <<nameVars, assetVars, audioVars, musicVars, mode, projectDir, jobs, loop, outputs, projOut, signal, resp>>

\* The .mp4 files of a directory listing, most recently modified first.
RECURSIVE Mp4sNewestFirst(_)
Mp4sNewestFirst(out) ==
    IF out = <<>> THEN <<>>
    ELSE LET last == out[Len(out)]
             rest == Mp4sNewestFirst(SubSeq(out, 1, Len(out) - 1))
         IN  IF EndsWith(last, DotMp4) THEN <<last>> \o rest ELSE rest

\* Discovery that takes the newest video even when the expected file exists.
DiscoverNewestFirst(w, output_name) ==
    IF w.exists /\ w.outdir
    THEN LET mp4s == Mp4sNewestFirst(w.out)
         IN  IF mp4s # <<>>
             THEN [ok |-> TRUE, file |-> mp4s[1], err |-> None]
             ELSE [ok |-> FALSE, file |-> None, err |-> NoMp4Found]
    ELSE [ok |-> FALSE, file |-> None, err |-> OutDirNotFound]

\* Discovery without the fallback scan of out/.
DiscoverExactOnly(w, output_name) ==
    IF w.exists /\ w.outdir /\ \E i \in 1..Len(w.out) : w.out[i] = output_name
    THEN [ok |-> TRUE, file |-> output_name, err |-> None]
    ELSE [ok |-> FALSE, file |-> None, err |-> NoMp4Found]

\* _render_agentic "Find the output video".
Discover(w, output_name) ==
    IF w.exists /\ w.outdir /\ \E i \in 1..Len(w.out) : w.out[i] = output_name
    THEN [ok |-> TRUE, file |-> output_name, err |-> None]
    ELSE IF w.exists /\ w.outdir
    THEN LET mp4s == Mp4sNewestFirst(w.out)
         IN  IF mp4s # <<>>
             THEN [ok |-> TRUE, file |-> mp4s[1], err |-> None]
             ELSE [ok |-> FALSE, file |-> None, err |-> NoMp4Found]
    ELSE [ok |-> FALSE, file |-> None, err |-> OutDirNotFound]

\* A final step whose rmtree is not guarded: a failed removal raises.
CleanupUnguarded(local_video_path, removed) ==
    IF removed THEN [raised |-> FALSE, ret |-> local_video_path, err |-> None]
    ELSE [raised |-> TRUE, ret |-> None, err |-> RmtreeError]

\* _render_agentic step 5 and the return: the rmtree is inside a try whose
\* except clause only logs, so the path is returned either way.
CleanupAndReturn(local_video_path, removed) ==
    [raised |-> FALSE, ret |-> local_video_path, err |-> None]

\* _render_agentic after proc.wait(): discovery, the copy to outputs/, the
\* cleanup of the working copy; and the end of process_video_agentic.
AgenticFinish(t) ==
    /\ mode = "agentic"
    /\ loop = Free
    /\ task[t].pc = "proc"
    /\ task[t].rc # -1
    /\ \E job_id \in {WorkJobId(PropsPath(t))},
          output_name \in {OutputNameFromProps(PropsPath(t))} :
         \E d \in {Discover(work[job_id], output_name)} :
           IF ~d.ok
           THEN Raise(t, "rendering", d.err) /\ UNCHANGED <<outputs, work>>
           ELSE /\ outputs' = (output_name :> [kind |-> "video", job |-> t, from |-> d.file])
                                  @@ outputs
                /\ \E removed \in BOOLEAN :
                      \E rv \in {CleanupAndReturn(LocalVideoPath(output_name), removed)} :
                          /\ work' = IF removed THEN [work EXCEPT ![job_id] = NoWorkDir] ELSE work
                          /\ IF rv.raised
                             THEN /\ jobs' = Failed(jobs, t, rv.err)
                                  /\ task' = [task EXCEPT ![t].pc = "failed",
                                                  ![t].raisedAt = "rendering", ![t].err = rv.err,
                                                  ![t].steps = Append(@, "rendering"),
                                                  ![t].found = d.file,
                                                  ![t].cleanup = "failed"]
                             ELSE /\ jobs' = Completed(jobs, t, rv.ret)
                                  /\ task' = [task EXCEPT ![t].pc = "done",
                                                  ![t].steps = Append(@, "rendering"),
                                                  ![t].stages = Append(@, "done"),
                                                  ![t].found = d.file,
                                                  ![t].cleanup = IF removed THEN "removed"
                                                                 ELSE "failed"]
                /\ loop' = Free
    /\ UNCHANGED <<nameVars, assetVars, audioVars, musicVars, mode, projectDir, projOut, signal, resp>>

Next ==
    \/ Submit
    \/ GetStatus
    \/ \E t \in DOMAIN task : StartTask(t)
    \/ \E t \in DOMAIN task : Scrape(t)
    \/ \E t \in DOMAIN task : Analyze(t)
    \/ \E t \in DOMAIN task : Direct(t)
    \/ \E t \in DOMAIN task : RenderTemplatedStart(t)
    \/ \E t \in DOMAIN task : RendererExit(t)
    \/ \E t \in DOMAIN task : RenderTemplatedFinish(t)
    \/ \E t \in DOMAIN task : Storyboard(t)
    \/ \E t \in DOMAIN task : AgenticSetup(t)
    \/ \E t \in DOMAIN task : AgenticAudio(t)
    \/ \E t \in DOMAIN task : AgenticLaunch(t)
    \/ \E t \in DOMAIN task : AgentExit(t)
    \/ \E t \in DOMAIN task : AgenticFinish(t)

Spec == Init /\ [][Next]_vars

\* The next step of background task t, whichever it is.
TaskStep(t) ==
    /\ t \in DOMAIN task
    /\ \/ StartTask(t) \/ Scrape(t) \/ Analyze(t) \/ Direct(t)
       \/ RenderTemplatedStart(t) \/ RendererExit(t) \/ RenderTemplatedFinish(t)
       \/ Storyboard(t) \/ AgenticSetup(t) \/ AgenticAudio(t) \/ AgenticLaunch(t)
       \/ AgentExit(t) \/ AgenticFinish(t)

\* A collaborator call returns or raises, a subprocess closes its output and
\* exits, and the event loop runs a task that stays ready: a task whose next
\* step stays possible takes it.
Fairness == \A t \in JobIds : WF_vars(TaskStep(t))

\* Submissions and the steps of the background tasks; status queries, which
\* read the registry and touch no task, are left to Spec.
NextLive ==
    \/ Submit
    \/ \E t \in DOMAIN task : TaskStep(t)

SpecLive == Init /\ [][NextLive]_vars /\ Fairness

(***************************************************************************)
(* Properties of the job registry and of the two pipelines.                *)
(***************************************************************************)
Terminal == {"completed", "failed"}

C2_WorkDirRemoved ==
    \A t \in DOMAIN task :
        (/\ mode = "agentic"
         /\ task[t].rc # -1
         /\ task[t].pc \in {"done", "failed"}
         /\ task[t].cleanup # "failed")
        => ~work[WorkJobId(PropsPath(t))].exists

\* C6: a task ended by an exception leaves its record failed, with the
\* text of the exception as message, no video path, and the stage of the
\* step that raised; after a failed extraction only the scraping step ran.
C6_FailureRecord ==
    \A t \in DOMAIN task :
        task[t].pc = "failed" =>
            /\ jobs[t].status = "failed"
            /\ jobs[t].message = task[t].err
            /\ jobs[t].video_path = None
            /\ jobs[t].stage = task[t].raisedAt
            /\ task[t].raisedAt = "scraping" =>
                  /\ Contains(jobs[t].message, <<"Scraping failed">>)
                  /\ task[t].steps = <<"scraping">>
                  /\ task[t].rc = -1

C6_Witness ==
    \E a \in DOMAIN task, b \in DOMAIN task :
        /\ task[a].pc = "failed" /\ task[a].raisedAt = "scraping"
        /\ task[b].pc = "failed" /\ task[b].raisedAt = "rendering"

\* A video file lies in out/ of the work directory.
HasMp4(w) == w.exists /\ w.outdir /\ \E i \in 1..Len(w.out) : EndsWith(w.out[i], DotMp4)

\* C7: when an agentic task resumes after its agent has exited, whatever
\* the exit code, the job becomes completed if out/ holds an .mp4 and failed
\* if it holds none.
C7_ExitCodeDoesNotDecide ==
    [][\A t \in DOMAIN task :
          (mode = "agentic" /\ task[t].pc = "proc" /\ task'[t].pc \in {"done", "failed"}) =>
              LET w == work[WorkJobId(PropsPath(t))]
              IN  /\ HasMp4(w) => jobs'[t].status = "completed" /\ task'[t].pc = "done"
                  /\ ~HasMp4(w) => jobs'[t].status = "failed" /\ task'[t].pc = "failed"]_vars

\* The agent exited nonzero leaving one differently named .mp4, and the job
\* completed.
C7_Witness ==
    \E t \in DOMAIN task :
        /\ mode = "agentic"
        /\ task[t].rc # 0 /\ task[t].rc # -1
        /\ task[t].found = FinalMp4
        /\ jobs[t].status = "completed"

\* The permanent output store holds a video of job t.
StoredVideo(t) == \E n \in DOMAIN outputs : outputs[n].kind = "video" /\ outputs[n].job = t

\* C8: a templated job whose renderer exited nonzero ends failed, with the
\* exit code in the message, no video path and no video in the output store.
C8_TemplatedExitFatal ==
    \A t \in DOMAIN task :
        (mode = "templated" /\ task[t].rc \notin {-1, 0} /\ task[t].pc # "proc") =>
            /\ task[t].pc = "failed"
            /\ jobs[t].status = "failed"
            /\ Contains(jobs[t].message, <<Digit(task[t].rc)>>)
            /\ jobs[t].video_path = None
            /\ ~StoredVideo(t)

\* The renderer wrote its output file and still exited nonzero.
C8_Witness ==
    \E t \in DOMAIN task :
        /\ mode = "templated"
        /\ task[t].rc \notin {-1, 0}
        /\ task[t].pc = "failed"
        /\ OutputName(t) \in projOut

(***************************************************************************)
(* Output naming for two jobs (api.py 78-85, render.py 34-42, 103-106,     *)
(* 142).  Identifiers are IdLen hexadecimal digits.                        *)
(***************************************************************************)
IdLen == 2

HexDigits == {"0", "7", "a", "f"}

RECURSIVE HexIds(_)
HexIds(n) == IF n = 0 THEN {<<>>} ELSE {<<c>> \o r : c \in HexDigits, r \in HexIds(n - 1)}

ProjectOutDir == <<"~", "/", "r", "/", "o", "u", "t", "/">>

\* What one job derives from its identifier: the props path, the output
\* name, the renderer's output path and the path in the output store.
DerivedNames(job_id) ==
    LET props_path == PropsPath(job_id)
        output_name == OutputNameFromProps(props_path)
    IN  [props_path |-> props_path,
         output_name |-> output_name,
         remote_output |-> ProjectOutDir \o output_name,
         local_video_path |-> LocalVideoPath(output_name)]

InitNames ==
    /\ IdleService /\ IdleAssets /\ IdleAudio /\ IdleMusic
    /\ nameIds \in HexIds(IdLen) \X HexIds(IdLen)
    /\ nameOut = <<>>

DeriveNames ==
    /\ nameOut = <<>>
    /\ nameIds # <<>>
    /\ nameOut' = <<DerivedNames(nameIds[1]), DerivedNames(nameIds[2])>>
    /\ UNCHANGED <<serviceVars, assetVars, audioVars, musicVars, nameIds>>

NextNames == DeriveNames

SpecNames == InitNames /\ [][NextNames]_vars

\* C9: two jobs with different identifiers derive different output names,
\* renderer output paths and output-store paths, each carrying its own
\* identifier.
C9_DistinctOutputNames ==
    (nameOut # <<>> /\ nameIds[1] # nameIds[2]) =>
        /\ nameOut[1].output_name # nameOut[2].output_name
        /\ nameOut[1].remote_output # nameOut[2].remote_output
        /\ nameOut[1].local_video_path # nameOut[2].local_video_path
        /\ \A i \in 1..2 : Contains(nameOut[i].output_name, nameIds[i])

C9_Witness ==
    /\ nameOut # <<>>
    /\ nameIds[1] = <<"a", "7">> /\ nameIds[2] = <<"7", "a">>
    /\ nameOut[1].output_name = <<"v", "i", "d", "e", "o", "_", "a", "7", ".", "m", "p", "4">>

(***************************************************************************)
(* Asset Placement (assets.py).  A configuration record is a tree of       *)
(* tagged values: "dict" (a sequence of <<key, value>> pairs, in insertion *)
(* order), "list", "str" (a sequence of characters), "none" (None and the  *)
(* other falsy scalars) and "num" (a truthy scalar that is no string).     *)
(***************************************************************************)
MaxPasses == 2
MinSourceLen == 5
ContentMinLen == 100

Str(s) == [t |-> "str", v |-> s]
NoneValue == [t |-> "none", v |-> <<>>]
NumValue == [t |-> "num", v |-> <<>>]
Dict(items) == [t |-> "dict", v |-> items]
List(items) == [t |-> "list", v |-> items]

ImageKeys == {"src", "image", "url"}

Whitespace == {" ", "\t", "\n"}

\* str.strip()
RECURSIVE Strip(_)
Strip(s) ==
    IF s = <<>> THEN s
    ELSE IF s[1] \in Whitespace THEN Strip(SubSeq(s, 2, Len(s)))
    ELSE IF s[Len(s)] \in Whitespace THEN Strip(SubSeq(s, 1, Len(s) - 1))
    ELSE s

\* The characters re.sub(r'[^a-zA-Z0-9_.-]', '', filename) keeps.
FilenameChars ==
    {"a", "b", "c", "d", "e", "f", "g", "h", "i", "j", "k", "l", "m", "n",
     "o", "p", "q", "r", "s", "t", "u", "v", "w", "x", "y", "z", "A", "B",
     "C", "D", "E", "F", "G", "H", "I", "J", "K", "L", "M", "N", "O", "P",
     "Q", "R", "S", "T", "U", "V", "W", "X", "Y", "Z", "0", "1", "2", "3",
     "4", "5", "6", "7", "8", "9", "_", ".", "-"}

IsFilenameChar(c) == c \in FilenameChars

Sanitize(filename) == SelectSeq(filename, IsFilenameChar)

\* The first position of s holding a character of cs, or Len(s) + 1.
FirstOf(s, cs) ==
    IF \E i \in 1..Len(s) : s[i] \in cs
    THEN CHOOSE i \in 1..Len(s) : s[i] \in cs /\ \A j \in 1..(i - 1) : s[j] \notin cs
    ELSE Len(s) + 1

HttpPrefix == <<"h", "t", "t", "p", ":", "/", "/">>
HttpsPrefix == <<"h", "t", "t", "p", "s", ":", "/", "/">>

\* urlparse(url).path of an http(s) URL: what follows the host, up to the
\* query or the fragment.
UrlPath(url) ==
    LET rest == IF StartsWith(url, HttpsPrefix) THEN SubSeq(url, Len(HttpsPrefix) + 1, Len(url))
                ELSE SubSeq(url, Len(HttpPrefix) + 1, Len(url))
        after == SubSeq(rest, FirstOf(rest, {"/", "?", "#"}), Len(rest))
    IN  SubSeq(after, 1, FirstOf(after, {"?", "#"}) - 1)

RECURSIVE Decimal(_)
Decimal(n) == IF n < 10 THEN <<Digit(n)>> ELSE Decimal(n \div 10) \o <<Digit(n % 10)>>

\* abs(hash(url)): some number that depends on the URL alone.
HashOf(url) == Len(url)

\* f"asset_{abs(hash(url))}.png"
HashedName(url) == <<"a", "s", "s", "e", "t", "_">> \o Decimal(HashOf(url)) \o <<".", "p", "n", "g">>

\* upload_single_asset: the local file name of a URL.
AssetFilename(url) ==
    LET filename == Basename(UrlPath(url))
    IN  Sanitize(IF filename = <<>> \/ ~(\E i \in 1..Len(filename) : filename[i] = ".")
                 THEN HashedName(url) ELSE filename)

PlaceholderBase == <<"h", "t", "t", "p", "s", ":", "/", "/", "p", "l", "a", "c", "e", "h", "o", "l", "d", ".", "c", "o", "/", "1", "9", "2", "0", "x", "1", "0", "8", "0", "/", "C", "C", "C", "C", "C", "C", "/", "6", "6", "6", "6", "6", "6", ".", "p", "n", "g", "?", "t", "e", "x", "t", "=">>
NoImageUrl == PlaceholderBase \o <<"N", "o", "+", "I", "m", "a", "g", "e", "+", "A", "v", "a", "i", "l", "a", "b", "l", "e">>
PlaceholderUrl == PlaceholderBase \o <<"P", "l", "a", "c", "e", "h", "o", "l", "d", "e", "r">>

\* File contents: the first four bytes, the length, and whose bytes they are.
PngSignature == <<137, 80, 78, 71>>
JpgSignature == <<255, 216>>
ValidPngBytes == [head |-> <<137, 80, 78, 71>>, len |-> 67, of |-> "fallback"]
NoBytes == [head |-> <<>>, len |-> 0, of |-> "nothing"]

Body(head, len) == [head |-> head, len |-> len, of |-> "response"]

\* What requests.get may produce: a response, or an exception.
Responses ==
    {[raised |-> TRUE, status_code |-> 0, content |-> NoBytes],
     [raised |-> FALSE, status_code |-> 200, content |-> Body(<<137, 80, 78, 71>>, 150)],
     [raised |-> FALSE, status_code |-> 200, content |-> Body(<<255, 216, 255, 224>>, 101)],
     [raised |-> FALSE, status_code |-> 200, content |-> Body(<<60, 104, 116, 109>>, 150)],
     [raised |-> FALSE, status_code |-> 200, content |-> Body(<<137, 80, 78, 71>>, 100)],
     [raised |-> FALSE, status_code |-> 404, content |-> Body(<<137, 80, 78, 71>>, 150)]}

ResponseFor(url, n) == IF StartsWith(url, PlaceholderBase) THEN n.placeholder ELSE n.user

\* The bytes to save without the signature test.
ContentToSaveAnyBody(url, n) ==
    IF StartsWith(url, <<"h", "t", "t", "p">>)
    THEN LET r == ResponseFor(url, n)
         IN  IF ~r.raised /\ r.status_code = 200 /\ r.content.len > ContentMinLen
             THEN r.content
             ELSE ValidPngBytes
    ELSE ValidPngBytes

\* upload_single_asset lines 75-92: the bytes to save.
ContentToSave(url, n) ==
    IF StartsWith(url, <<"h", "t", "t", "p">>)
    THEN LET r == ResponseFor(url, n)
         IN  IF ~r.raised /\ r.status_code = 200 /\ r.content.len > ContentMinLen
                /\ (StartsWith(r.content.head, PngSignature) \/ StartsWith(r.content.head, JpgSignature))
             THEN r.content
             ELSE ValidPngBytes
    ELSE ValidPngBytes

\* open(path, "wb") fails on a name that denotes a directory.
WritableName(filename) == filename \notin {<<".">>, <<".", ".">>}

\* upload_single_asset: the call as one event, with what it wrote under
\* public/ and under public/public/ and what it returned.
UploadSingleAsset(url, n, w) ==
    LET filename == AssetFilename(url)
        content == ContentToSave(url, n)
        first == w \notin {"public", "mkdir"} /\ WritableName(filename)
        second == first /\ w # "nested"
    IN  [url |-> url, filename |-> filename,
         requested |-> StartsWith(url, <<"h", "t", "t", "p">>),
         response |-> ResponseFor(url, n),
         public |-> IF first THEN content ELSE NoBytes,
         nested |-> IF second THEN content ELSE NoBytes,
         ret |-> IF second THEN filename ELSE None]

\* process_node, the branch of a scalar under an image-bearing key: the new
\* value of node[k] and the uploads made.
ProcessLeaf(val, n, w) ==
    IF val.t = "str" /\ Len(val.v) < MinSourceLen
    THEN [val |-> val, log |-> <<>>]
    ELSE LET empty == val.t = "none" \/ (val.t = "str" /\ Strip(val.v) = <<>>)
             v1 == IF empty THEN Str(NoImageUrl) ELSE val
         IN  IF v1.t # "str"
             THEN [val |-> v1, log |-> <<>>]
             ELSE LET v2 == IF StartsWith(v1.v, <<"/", "/">>)
                            THEN <<"h", "t", "t", "p", "s", ":">> \o v1.v ELSE v1.v
                      v3 == IF StartsWith(v2, HttpPrefix) \/ StartsWith(v2, HttpsPrefix)
                            THEN v2 ELSE PlaceholderUrl
                      e == UploadSingleAsset(v3, n, w)
                  IN  [val |-> IF e.ret # None THEN Str(e.ret) ELSE v1, log |-> <<e>>]

RECURSIVE ConcatAll(_)
ConcatAll(ss) == IF ss = <<>> THEN <<>> ELSE ss[1] \o ConcatAll(SubSeq(ss, 2, Len(ss)))

\* process_node: the rewritten node and the uploads made, in order.
RECURSIVE ProcessNode(_, _, _)
ProcessNode(node, n, w) ==
    IF node.t = "dict"
    THEN LET done == [i \in 1..Len(node.v) |->
                        LET k == node.v[i][1]
                            v == node.v[i][2]
                        IN  IF v.t \in {"dict", "list"}
                            THEN LET r == ProcessNode(v, n, w) IN [val |-> r.node, log |-> r.log]
                            ELSE IF k \in ImageKeys THEN ProcessLeaf(v, n, w)
                            ELSE [val |-> v, log |-> <<>>]]
         IN  [node |-> Dict([i \in 1..Len(node.v) |-> <<node.v[i][1], done[i].val>>]),
              log |-> ConcatAll([i \in 1..Len(node.v) |-> done[i].log])]
    ELSE IF node.t = "list"
    THEN LET done == [i \in 1..Len(node.v) |-> ProcessNode(node.v[i], n, w)]
         IN  [node |-> List([i \in 1..Len(node.v) |-> done[i].node]),
              log |-> ConcatAll([i \in 1..Len(node.v) |-> done[i].log])]
    ELSE [node |-> node, log |-> <<>>]

\* upload_dynamic_assets
UploadDynamicAssets(props_data, n, w) ==
    IF props_data.t # "dict" THEN [node |-> props_data, log |-> <<>>]
    ELSE ProcessNode(props_data, n, w)

\* Values an image-bearing field may hold before placement.
LocalLogoPng == <<"l", "o", "g", "o", ".", "p", "n", "g">>
SourceValues ==
    {Str(<<>>),
     Str(<<" ", " ">>),
     Str(<<" ", " ", " ", " ", " ", " ">>),
     Str(<<"a", ".", "b">>),
     Str(LocalLogoPng),
     Str(<<"h", "t", "t", "p", ":", "/", "/", "h", "/", "a", ".", "p", "n", "g">>),
     Str(<<"h", "t", "t", "p", "s", ":", "/", "/", "h", "/", "p", "/", "b", ".", "j", "p", "g", "?", "v", "=", "1">>),
     Str(<<"/", "/", "h", "/", "c", ".", "p", "n", "g">>),
     Str(<<"h", "t", "t", "p", "s", ":", "/", "/", "h", "/">>),
     Str(<<"h", "t", "t", "p", "s", ":", "/", "/", "h", "/", "x", " ", "y", ".", "p", "n", "g">>),
     Str(<<"h", "t", "t", "p", "s", ":", "/", "/", "h", "/", ".">>),
     NoneValue,
     NumValue}

OutroValues == {Str(<<>>), Str(LocalLogoPng), Str(<<"/", "/", "h", "/", "c", ".", "p", "n", "g">>), NoneValue}

\* Configuration records: a flat one, and one shaped like ShowcaseProps
\* (config.screenshots[].src, a callout list, an outro badge image).
Configs ==
    {Dict(<<<<"src", v>>>>) : v \in SourceValues}
    \cup {Dict(<<<<"config", Dict(<<
              <<"name", Str(<<"h", "t", "t", "p", ":", "/", "/", "h", "/", "a", ".", "p", "n", "g">>)>>,
              <<"screenshots", List(<<Dict(<<<<"src", v>>, <<"callouts", List(<<Str(<<"h", "i">>)>>)>>>>)>>)>>,
              <<"outro", Dict(<<<<"image", w>>>>)>>
          >>)>>>>) : v \in SourceValues, w \in OutroValues}
    \cup {List(<<Dict(<<<<"url", Str(<<"h", "t", "t", "p", ":", "/", "/", "h", "/", "a", ".", "p", "n", "g">>)>>>>)>>)}
    \cup {Dict(<<>>)}

InitAssets ==
    /\ IdleService /\ IdleNames /\ IdleAudio /\ IdleMusic
    /\ props \in Configs
    /\ net \in [user : Responses, placeholder : Responses]
    /\ wr \in {"ok", "public", "nested", "mkdir"}
    /\ passes = <<>>

\* upload_standard_assets, the loop over the three standard files: a file is
\* written when its download answers 200 and public/ takes the write; every
\* failure inside the loop is swallowed.
StandardAssetWritten(n, w) ==
    ~n.placeholder.raised /\ n.placeholder.status_code = 200 /\ w \in {"ok", "nested"}

\* if props_data: a dictionary or list with at least one entry.
Truthy(props_data) == props_data.t \in {"dict", "list"} /\ props_data.v # <<>>

\* upload_standard_assets(project_dir, props_data): makedirs(public_dir) comes
\* before the loop and outside every try; then the standard files; then the
\* dynamic assets of a non-empty configuration.
UploadStandardAssets(props_data, n, w) ==
    IF w = "mkdir"
    THEN [raised |-> TRUE, standard |-> FALSE, node |-> props_data, log |-> <<>>]
    ELSE [raised |-> FALSE, standard |-> StandardAssetWritten(n, w)]
         @@ (IF Truthy(props_data) THEN UploadDynamicAssets(props_data, n, w)
             ELSE [node |-> props_data, log |-> <<>>])

\* One call of upload_standard_assets(project_dir, props_data), as
\* _render_templated makes it.
AssetPlacement ==
    /\ props # <<>>
    /\ Len(passes) < MaxPasses
    /\ \E r \in {UploadStandardAssets(props, net, wr)} :
           /\ props' = r.node
           /\ passes' = Append(passes, [before |-> props, after |-> r.node, log |-> r.log,
                                        raised |-> r.raised, standard |-> r.standard])
    /\ UNCHANGED <<serviceVars, nameVars, audioVars, musicVars, net, wr>>

NextAssets == AssetPlacement

SpecAssets == InitAssets /\ [][NextAssets]_vars

(***************************************************************************)
(* Properties of Asset Placement.                                          *)
(***************************************************************************)
\* The strings held under an image-bearing key, at any depth.
RECURSIVE ImageValues(_)
ImageValues(node) ==
    IF node.t = "dict"
    THEN UNION {LET k == node.v[i][1]
                    v == node.v[i][2]
                IN  IF v.t \in {"dict", "list"} THEN ImageValues(v)
                    ELSE IF k \in ImageKeys /\ v.t = "str" THEN {v.v}
                    ELSE {} : i \in 1..Len(node.v)}
    ELSE IF node.t = "list"
    THEN UNION {ImageValues(node.v[i]) : i \in 1..Len(node.v)}
    ELSE {}

IsRemoteUrl(s) ==
    \/ StartsWith(s, <<"h", "t", "t", "p", ":", "/", "/">>)
    \/ StartsWith(s, <<"h", "t", "t", "p", "s", ":", "/", "/">>)
    \/ StartsWith(s, <<"/", "/">>)

IsLocalFilename(s) == s # <<>> /\ Strip(s) # <<>> /\ ~IsRemoteUrl(s)

\* Every upload of a pass wrote both copies.
WritesSucceeded(log) == \A i \in 1..Len(log) : log[i].ret # None

\* C3 as claimed: after a pass over a configuration record whose file
\* writes succeeded, every string under src, image or url is a non-empty
\* local filename, and none is a short value left as it was.
C3_AllLocalAfterPlacement ==
    (/\ Len(passes) >= 1
     /\ passes[1].before.t = "dict"
     /\ wr = "ok"
     /\ WritesSucceeded(passes[1].log))
    => \A s \in ImageValues(passes[1].after) :
          /\ IsLocalFilename(s)
          /\ ~(Len(s) < 5 /\ s \in ImageValues(passes[1].before))

\* C4 as claimed: a second pass over a configuration that the first pass
\* left with local filenames only changes no value, downloads nothing and
\* writes no file.
C4_SecondPassIdempotent ==
    (/\ Len(passes) >= 2
     /\ passes[1].before.t = "dict"
     /\ wr = "ok"
     /\ \A s \in ImageValues(passes[1].after) : IsLocalFilename(s))
    => /\ passes[2].after = passes[1].after
       /\ passes[2].log = <<>>

Written(bytes) == bytes.of # "nothing"

MaxScenes == 2

\* A key the dict does not hold.
AbsentKey == [t |-> "absent", v |-> <<>>]

\* dict.get(key, default)
DictGet(value, default) == IF value.t = "absent" THEN default ELSE value

Scripts ==
    {AbsentKey, NoneValue, Str(<<>>), Str(<<" ", " ">>),
     Str(<<" ", "h", "i", " ">>), Str(<<"g", "o", " ", "n", "o", "w">>)}

MusicStyles == {AbsentKey, Str(<<"none">>), Str(<<"calm">>), Str(<<"jazz">>)}

\* The scenes a dict storyboard may hold: a script with a duration_seconds,
\* in tenths of a second.  Only a spoken scene is given the short duration
\* as well.
SceneVariants ==
    {[voiceover_script |-> sc, duration_seconds |-> 40] : sc \in Scripts}
    \cup {[voiceover_script |-> Str(<<"g", "o", " ", "n", "o", "w">>), duration_seconds |-> 10]}

\* schemas.py: a SceneDescription has no voiceover_script and a
\* VideoStoryboard no background_music_style.
ModelScenes(n) ==
    [i \in 1..n |-> [scene_number |-> i, voiceover_script |-> AbsentKey,
                     duration_seconds |-> 40]]

DictScenes(n) ==
    {[i \in 1..n |-> [scene_number |-> i, voiceover_script |-> f[i].voiceover_script,
                      duration_seconds |-> f[i].duration_seconds]] :
        f \in [1..n -> SceneVariants]}

Storyboards ==
    UNION {{[form |-> "model", scenes |-> ModelScenes(n),
             background_music_style |-> AbsentKey]}
           \cup {[form |-> "dict", scenes |-> sc, background_music_style |-> st] :
                    sc \in DictScenes(n), st \in MusicStyles} : n \in 0..MaxScenes}

\* storyboard.model_dump() if the storyboard has one, else the storyboard.
ModelDump(storyboard) ==
    IF storyboard.form = "model"
    THEN [storyboard EXCEPT
            !.scenes = [i \in 1..Len(storyboard.scenes) |->
                          [storyboard.scenes[i] EXCEPT !.voiceover_script = AbsentKey]],
            !.background_music_style = AbsentKey]
    ELSE storyboard

\* len(script.split())
RECURSIVE WordCount(_)
WordCount(script) ==
    IF script = <<>> THEN 0
    ELSE LET rest == WordCount(Tail(script))
         IN  IF Head(script) \notin Whitespace
                /\ (Len(script) = 1 \/ script[2] \in Whitespace)
             THEN rest + 1
             ELSE rest

\* round(word_count / 2.5, 1), in tenths of a second.
DurationEstimate(script) == 4 * WordCount(script)

VoiceoverFilename(scene_num) ==
    <<"voiceover_scene_">> \o Decimal(scene_num) \o <<".mp3">>

AttributeError == <<"'NoneType' object has no attribute 'strip'">>

\* An entry is appended when the try block reaches its end.
TryBlockCompletesBeforeWrite(outcome) == outcome # "raise"

\* generate_scene_voiceovers, try block of one scene: generate_voiceover
\* raises, the file write raises, or both succeed.
TryBlockCompletes(outcome) == outcome = "ok"

\* generate_scene_voiceovers, the loop over the scenes from scene i on.
RECURSIVE VoiceoverLoop(_, _, _, _)
VoiceoverLoop(scenes, outcomes, i, acc) ==
    IF i > Len(scenes) THEN [acc EXCEPT !.raised = FALSE]
    ELSE LET scene == scenes[i]
             raw == DictGet(scene.voiceover_script, Str(<<>>))
         IN  IF raw.t # "str"
             THEN [acc EXCEPT !.raised = TRUE, !.error = AttributeError]
             ELSE LET script == Strip(raw.v)
                      scene_num == scene.scene_number
                      filename == VoiceoverFilename(scene_num)
                  IN  IF script = <<>>
                      THEN VoiceoverLoop(scenes, outcomes, i + 1, acc)
                      ELSE VoiceoverLoop(scenes, outcomes, i + 1,
                             [acc EXCEPT
                                !.calls = Append(@, script),
                                !.files = IF TryBlockCompletes(outcomes[i])
                                          THEN @ \cup {filename} ELSE @,
                                !.audio_metadata =
                                    IF TryBlockCompletes(outcomes[i])
                                    THEN Append(@, [scene_number |-> scene_num,
                                                    filename |-> filename,
                                                    duration_estimate |-> DurationEstimate(script),
                                                    script |-> script])
                                    ELSE @])

GenerateSceneVoiceovers(storyboard, outcomes) ==
    VoiceoverLoop(ModelDump(storyboard).scenes, outcomes, 1,
                  [raised |-> FALSE, error |-> None, audio_metadata |-> <<>>,
                   calls |-> <<>>, files |-> {}])

\* audio.py _MUSIC_FILES
MusicFiles ==
    (<<"upbeat">> :> <<"background_upbeat.mp3">>)
    @@ (<<"calm">> :> <<"background_calm.mp3">>)
    @@ (<<"dramatic">> :> <<"background_dramatic.mp3">>)
    @@ (<<"corporate">> :> <<"background_corporate.mp3">>)

BundledLoops == {MusicFiles[st] : st \in DOMAIN MusicFiles}

\* The lookup without its default.
SourceFilenameNoDefault(music_style) ==
    IF music_style \in DOMAIN MusicFiles THEN MusicFiles[music_style]
    ELSE <<"background_">> \o music_style \o <<".mp3">>

\* _MUSIC_FILES.get(music_style, _MUSIC_FILES["upbeat"])
SourceFilename(music_style) ==
    IF music_style \in DOMAIN MusicFiles THEN MusicFiles[music_style]
    ELSE MusicFiles[<<"upbeat">>]

\* prepare_background_music.  dir_exists: output_dir is there; sources: the
\* bundled loops on disk; copy: shutil.copy2 succeeds or raises.  The result
\* tells what was returned or raised, whether output_dir was created, and
\* which loop was copied to which name.
PrepareBackgroundMusic(music_style, dir_exists, sources, copy) ==
    IF music_style = <<"none">>
    THEN [raised |-> FALSE, ret |-> None, made_dir |-> FALSE, copied |-> None, dest |-> None]
    ELSE LET source_filename == SourceFilename(music_style)
             made == ~dir_exists
         IN  IF source_filename \notin sources
             THEN [raised |-> FALSE, ret |-> None, made_dir |-> made,
                   copied |-> None, dest |-> None]
             ELSE IF copy = "raise"
             THEN [raised |-> TRUE, ret |-> None, made_dir |-> made,
                   copied |-> None, dest |-> None]
             ELSE [raised |-> FALSE, ret |-> BackgroundMusicMp3, made_dir |-> made,
                   copied |-> source_filename, dest |-> BackgroundMusicMp3]

InitAudio ==
    /\ IdleService /\ IdleNames /\ IdleAssets /\ IdleMusic
    /\ sb \in Storyboards
    /\ tts \in [scene : [1..Len(sb.scenes) -> {"ok", "raise", "writefail"}],
                music : {"ok", "missing", "raise"}]
    /\ ttsCalls = <<>>
    /\ audioRes = <<>>
    /\ apc = "audio"

\* _render_agentic step 3, lines 240-248.
AudioStep ==
    /\ apc = "audio"
    /\ LET r == GenerateSceneVoiceovers(sb, tts.scene)
           music_style == DictGet(ModelDump(sb).background_music_style,
                                  Str(<<"upbeat">>)).v
           m == PrepareBackgroundMusic(music_style, TRUE,
                                       IF tts.music = "missing" THEN {} ELSE BundledLoops,
                                       IF tts.music = "raise" THEN "raise" ELSE "ok")
       IN  /\ ttsCalls' = r.calls
           /\ audioRes' =
                [returned |-> ~r.raised,
                 result |-> IF r.raised THEN <<>> ELSE r.audio_metadata,
                 files |-> r.files,
                 audio_metadata |-> IF r.raised THEN <<>> ELSE r.audio_metadata,
                 background_music_file |->
                     IF r.raised \/ m.raised THEN None ELSE m.ret,
                 warned |-> r.raised \/ m.raised,
                 music_called |-> ~r.raised,
                 brief |-> <<>>]
    /\ apc' = "brief"
    /\ UNCHANGED <<serviceVars, nameVars, assetVars, musicVars, sb, tts>>

\* _render_agentic step 4, lines 250-254: the brief lists the audio files.
WriteBrief ==
    /\ apc = "brief"
    /\ audioRes' = [audioRes EXCEPT !.brief =
          <<[voiceovers |-> [i \in 1..Len(audioRes.audio_metadata) |->
                               audioRes.audio_metadata[i].filename],
             music |-> audioRes.background_music_file]>>]
    /\ apc' = "agent"
    /\ UNCHANGED <<serviceVars, nameVars, assetVars, musicVars, sb, tts, ttsCalls>>

\* _render_agentic lines 275-279: the agent subprocess is created.
InvokeAgent ==
    /\ apc = "agent"
    /\ apc' = "launched"
    /\ UNCHANGED <<serviceVars, nameVars, assetVars, musicVars, sb, tts, ttsCalls, audioRes>>

NextAudio == AudioStep \/ WriteBrief \/ InvokeAgent

SpecAudio == InitAudio /\ [][NextAudio]_vars

(***************************************************************************)
(* prepare_background_music called on its own.                             *)
(***************************************************************************)
StyleArguments ==
    {<<"none">>, <<"upbeat">>, <<"calm">>, <<"dramatic">>, <<"corporate">>,
     <<"jazz">>, <<>>}

InitMusic ==
    /\ IdleService /\ IdleNames /\ IdleAssets /\ IdleAudio
    /\ mus \in [music_style : StyleArguments, dir_exists : BOOLEAN,
                 sources : SUBSET BundledLoops, copy : {"ok", "raise"}]
    /\ musRes = <<>>

PrepareMusic ==
    /\ mus # <<>>
    /\ musRes = <<>>
    /\ musRes' = <<PrepareBackgroundMusic(mus.music_style, mus.dir_exists,
                                          mus.sources, mus.copy)>>
    /\ UNCHANGED <<serviceVars, nameVars, assetVars, audioVars, mus>>

NextMusic == PrepareMusic

SpecMusic == InitMusic /\ [][NextMusic]_vars

\* The scene's script is a string that is non-empty after trimming.
HasScript(scene) ==
    /\ scene.voiceover_script.t = "str"
    /\ \E k \in 1..Len(scene.voiceover_script.v) :
          scene.voiceover_script.v[k] \notin {" ", "\t", "\n", "\r"}

Indices(n) == [i \in 1..n |-> i]

\* C10: when generate_scene_voiceovers returns, its result holds, in scene
\* order, one entry for each scene with a non-empty trimmed script whose
\* synthesis and file write succeeded, and nothing else; synthesis was
\* called for the scenes with a non-empty trimmed script only; and the
\* driver's next positions are the brief and the agent.
C10_VoiceoverEntries ==
    (apc # "audio" /\ audioRes.returned) =>
       LET scenes == sb.scenes
           spoken == SelectSeq(Indices(Len(scenes)),
                               LAMBDA i : HasScript(scenes[i]))
           done == SelectSeq(spoken, LAMBDA i : tts.scene[i] = "ok")
       IN  /\ Len(audioRes.result) = Len(done)
           /\ \A k \in 1..Len(done) :
                 /\ audioRes.result[k].scene_number = scenes[done[k]].scene_number
                 /\ audioRes.result[k].script = Strip(scenes[done[k]].voiceover_script.v)
                 /\ audioRes.result[k].filename \in audioRes.files
           /\ Len(ttsCalls) = Len(spoken)
           /\ \A k \in 1..Len(spoken) :
                 ttsCalls[k] = Strip(scenes[spoken[k]].voiceover_script.v)
           /\ apc \in {"brief", "agent", "launched"}

\* The agent was invoked for a storyboard of two scenes, the first with an
\* empty script and the second spoken: one synthesis call, one entry.
C10_Witness ==
    /\ apc = "launched"
    /\ audioRes.returned
    /\ Len(sb.scenes) = 2
    /\ sb.scenes[1].voiceover_script = Str(<<>>)
    /\ HasScript(sb.scenes[2])
    /\ Len(ttsCalls) = 1
    /\ Len(audioRes.result) = 1
    /\ audioRes.result[1].scene_number = 2

\* The indices of the scenes that are spoken and whose synthesis and file
\* write succeed.
VoicedScenes ==
    SelectSeq(Indices(Len(sb.scenes)),
              LAMBDA i : HasScript(sb.scenes[i]) /\ tts.scene[i] = "ok")

\* C11 as claimed: for every storyboard, scripts absent or null included,
\* generate_scene_voiceovers returns normally, with one entry for each
\* scene that succeeded.
C11_BatchNeverAborts ==
    apc # "audio" =>
        /\ audioRes.returned
        /\ Len(audioRes.result) = Len(VoicedScenes)

\* C12 as claimed: when the audio step raised, in voiceover generation or
\* in music preparation, the brief written afterwards lists no voiceover
\* file and no background-music file.
C12_NoAudioAfterFailure ==
    (apc \in {"agent", "launched"} /\ audioRes.warned) =>
        /\ audioRes.brief[1].voiceovers = <<>>
        /\ audioRes.brief[1].music = None

\* C17 as claimed: a storyboard handed on to audio generation and the agent
\* gives every spoken scene at least its estimated voiceover duration plus
\* one second.
C17_DurationCoversVoiceover ==
    apc \in {"brief", "agent", "launched"} =>
        \A i \in 1..Len(sb.scenes) :
            HasScript(sb.scenes[i]) =>
                sb.scenes[i].duration_seconds
                    >= DurationEstimate(Strip(sb.scenes[i].voiceover_script.v)) + 10

\* The loop that a style stands for.
LoopOfStyle(music_style) ==
    CASE music_style = <<"calm">> -> <<"background_calm.mp3">>
      [] music_style = <<"dramatic">> -> <<"background_dramatic.mp3">>
      [] music_style = <<"corporate">> -> <<"background_corporate.mp3">>
      [] OTHER -> <<"background_upbeat.mp3">>

\* C13: prepare_background_music with style none returns nothing, creates
\* no directory and copies nothing; with any other style it takes that
\* style's loop, the upbeat loop for a style it does not know; a missing
\* loop gives nothing, without an exception and without a copy; a present
\* loop whose copy succeeds lands as background_music.mp3, the name returned.
C13_BackgroundMusic ==
    musRes # <<>> =>
        LET r == musRes[1]
            loop_file == LoopOfStyle(mus.music_style)
        IN  /\ mus.music_style = <<"none">> =>
                  /\ ~r.raised /\ r.ret = None
                  /\ ~r.made_dir /\ r.copied = None /\ r.dest = None
            /\ (mus.music_style # <<"none">> /\ loop_file \notin mus.sources) =>
                  ~r.raised /\ r.ret = None /\ r.copied = None /\ r.dest = None
            /\ (mus.music_style # <<"none">> /\ loop_file \in mus.sources /\ mus.copy = "ok") =>
                  /\ ~r.raised
                  /\ r.copied = loop_file
                  /\ r.dest = <<"background_music.mp3">>
                  /\ r.ret = <<"background_music.mp3">>

\* A style the table does not hold got the upbeat loop, its own loop being
\* absent, and an output directory that had to be created.
C13_Witness ==
    /\ musRes # <<>>
    /\ mus.music_style = <<"jazz">>
    /\ ~mus.dir_exists
    /\ mus.sources = {<<"background_upbeat.mp3">>}
    /\ musRes[1].copied = <<"background_upbeat.mp3">>
    /\ musRes[1].ret = <<"background_music.mp3">>
    /\ musRes[1].made_dir

(***************************************************************************)
(* Properties of submission, status queries, stages and the event loop.    *)
(***************************************************************************)
\* C14: the step that registers a job leaves its record processing and
\* queued with no video path and no message, answers with the job's
\* identifier, and leaves the job's task before its first step; and the
\* identifier a submission answered with is in the registry.
C14_SubmitRegisters ==
    /\ [][\A id \in DOMAIN jobs' \ DOMAIN jobs :
             /\ jobs'[id].status = "processing"
             /\ jobs'[id].stage = "queued"
             /\ jobs'[id].video_path = None
             /\ jobs'[id].message = None
             /\ resp' = <<"generate", id, "processing">>
             /\ task'[id].pc = "queued"
             /\ task'[id].steps = <<>>
             /\ task'[id].stages = <<"queued">>]_vars
    /\ [](resp[1] = "generate" => resp[2] \in DOMAIN jobs)

\* The second submission was answered while the first job's subprocess
\* was running and its own task had not started.
C14_Witness ==
    \E a \in DOMAIN jobs, b \in DOMAIN jobs :
        /\ resp = <<"generate", b, "processing">>
        /\ jobs[b].stage = "queued" /\ task[b].pc = "queued"
        /\ jobs[a].stage = "rendering" /\ task[a].pc = "proc"

\* C15: a status query answers 404 for an identifier the registry does not
\* hold and with the record itself for one it holds, and leaves the
\* registry as it was; no step of any operation removes a record.
C15_StatusQuery ==
    [][/\ DOMAIN jobs \subseteq DOMAIN jobs'
       /\ (resp'[1] = "status" /\ resp' # resp) =>
             /\ jobs' = jobs
             /\ IF resp'[2] \in DOMAIN jobs
                THEN resp'[3] = jobs[resp'[2]]
                ELSE resp'[3] = "404"]_vars

\* With one job failed, a query for the other identifier, never submitted,
\* was answered 404.
C15_Witness ==
    \E a \in DOMAIN jobs, b \in JobIds \ DOMAIN jobs :
        /\ jobs[a].status = "failed"
        /\ resp[1] = "status" /\ resp[2] = b /\ resp[3] = "404"

\* C16: an agentic job whose work directory could not be removed after the
\* copy is completed, with the stored video's path and the success message.
C16_CleanupFailureIgnored ==
    \A t \in DOMAIN task :
        task[t].cleanup = "failed" =>
            /\ task[t].pc = "done"
            /\ jobs[t].status = "completed"
            /\ jobs[t].stage = "done"
            /\ jobs[t].video_path = <<"/api/outputs/">> \o OutputName(t)
            /\ jobs[t].message = <<"Render successful">>
            /\ StoredVideo(t)

\* The removal failed: the job is completed and its work directory remains.
C16_Witness ==
    \E t \in DOMAIN task :
        /\ task[t].cleanup = "failed"
        /\ work[WorkJobId(PropsPath(t))].exists
        /\ jobs[t].status = "completed"

IsPrefix(p, q) == Len(p) <= Len(q) /\ SubSeq(q, 1, Len(p)) = p

StageOrder ==
    IF mode = "agentic"
    THEN <<"queued", "scraping", "analyzing", "storyboarding", "generating_audio",
           "rendering", "done">>
    ELSE <<"queued", "scraping", "analyzing", "generating", "rendering", "done">>

\* C18: the stage values written for a job form a prefix of its
\* pipeline's order, the record holds the last one written, done goes with
\* completed only, and a failed job gets no further stage.
C18_StageSequence ==
    /\ [](\A t \in DOMAIN task :
             /\ IsPrefix(task[t].stages, StageOrder)
             /\ jobs[t].stage = task[t].stages[Len(task[t].stages)]
             /\ jobs[t].stage = "done" <=> jobs[t].status = "completed")
    /\ [][\A t \in DOMAIN task :
             jobs[t].status = "failed" =>
                 /\ task'[t].stages = task[t].stages
                 /\ jobs'[t].stage = jobs[t].stage]_vars

\* One agentic job went through every stage, and another failed while
\* storyboarding.
C18_Witness ==
    \E a \in DOMAIN task, b \in DOMAIN task :
        /\ mode = "agentic"
        /\ task[a].stages = StageOrder
        /\ jobs[b].status = "failed" /\ jobs[b].stage = "storyboarding"

\* C19 as claimed: while the audio step of an agentic job is due or running,
\* the job's record says generating_audio.
C19_AudioDuringItsStage ==
    \A t \in DOMAIN task :
        (mode = "agentic" /\ task[t].pc = "audio") => jobs[t].stage = "generating_audio"

\* C20 as claimed: while a task is inside a call to content extraction,
\* analysis, direction, storyboarding or speech synthesis, the event loop is
\* free to run other tasks and to answer status queries.
C20_CollaboratorCallsSuspend ==
    \A t \in DOMAIN task :
        task[t].pc \in {"scraping", "analyzing", "generating", "storyboarding", "audio"}
            => loop = Free

(***************************************************************************)
(* Properties of the project directory, the work directories and the       *)
(* output store.                                                           *)
(***************************************************************************)
\* The renderer subprocess of templated job t is running.
RendererRunning(t) == mode = "templated" /\ task[t].pc = "proc" /\ task[t].rc = -1

\* C21: two templated renderers running at once were given the same
\* configuration file, so at least one of them was passed a file that
\* holds the other job's configuration.
C21_SharedConfigRace ==
    \A a \in DOMAIN task, b \in DOMAIN task :
        (a # b /\ RendererRunning(a) /\ RendererRunning(b)) =>
            /\ RemotePropsPath(a) = RemotePropsPath(b)
            /\ \/ signal[RemotePropsPath(a)] # a
               \/ signal[RemotePropsPath(b)] # b

\* The first job's renderer is still running and its configuration file
\* holds the second job's configuration.
C21_Witness ==
    \E a \in DOMAIN task, b \in DOMAIN task :
        /\ a # b
        /\ RendererRunning(a) /\ RendererRunning(b)
        /\ signal[RemotePropsPath(a)] = b

\* Agentic job t is between the creation of its work directory and the end
\* of its agent.
InFlight(t) == mode = "agentic" /\ task[t].pc \in {"audio", "brief", "proc"}

\* C22: the work directories of two jobs are different paths, a job in
\* flight has its work directory, and a step that changes anything in the
\* work directory of a job is a step of that job's own task.
C22_WorkDirIsolation ==
    /\ [](\A a \in DOMAIN task :
             /\ \A b \in DOMAIN task : a # b => WorkDir(a) # WorkDir(b)
             /\ InFlight(a) => work[a].exists)
    /\ [][\A j \in JobIds :
             work'[j] # work[j] =>
                 /\ j \in DOMAIN task
                 /\ task'[j] # task[j]
                 /\ \A k \in DOMAIN task \ {j} : task'[k] = task[k]]_vars

\* Two agentic jobs in flight at once, each with its work directory.
C22_Witness ==
    \E a \in DOMAIN task, b \in DOMAIN task :
        /\ a # b
        /\ InFlight(a) /\ InFlight(b)
        /\ work[a].exists /\ work[b].exists
        /\ task[a].pc = "proc" /\ task[b].pc = "brief"

\* File f is the most recently modified .mp4 of listing out (oldest first).
NewestMp4(out, f) ==
    \E i \in 1..Len(out) :
        /\ out[i] = f
        /\ EndsWith(f, DotMp4)
        /\ \A j \in (i + 1)..Len(out) : ~EndsWith(out[j], DotMp4)

\* C23: when an agentic task resumes after its agent, discovery takes the
\* expected file if out/ holds it, whatever else is there; otherwise the
\* most recently modified .mp4; and it fails exactly when out/ holds neither
\* (or is gone).
C23_DiscoveryPreference ==
    [][\A t \in DOMAIN task :
          (mode = "agentic" /\ task[t].pc = "proc" /\ task'[t].pc \in {"done", "failed"}) =>
              LET w == work[t]
                  expected == VideoPrefix \o t \o DotMp4
                  listed == w.exists /\ w.outdir
                  there == listed /\ \E i \in 1..Len(w.out) : w.out[i] = expected
              IN  /\ there => task'[t].pc = "done" /\ task'[t].found = expected
                  /\ (~there /\ HasMp4(w)) =>
                        task'[t].pc = "done" /\ NewestMp4(w.out, task'[t].found)
                  /\ task'[t].pc = "failed" <=> ~HasMp4(w)]_vars

\* The expected file was taken although a newer video lay beside it.
C23_Witness ==
    \E t \in DOMAIN task :
        /\ mode = "agentic"
        /\ task[t].pc = "done"
        /\ task[t].found = VideoPrefix \o t \o DotMp4
        /\ task[t].cleanup = "failed"
        /\ work[t].out = <<VideoPrefix \o t \o DotMp4, FinalMp4>>

\* C24: a completed job, in either mode, has its video in the output store
\* under video_<job_id>.mp4, also when agentic discovery picked a file of
\* another name, and its video_path names exactly that file.
C24_StoredUnderExpectedName ==
    \A id \in DOMAIN jobs :
        jobs[id].status = "completed" =>
            LET expected == VideoPrefix \o id \o DotMp4
            IN  /\ expected \in DOMAIN outputs
                /\ outputs[expected].kind = "video"
                /\ outputs[expected].job = id
                /\ jobs[id].video_path = <<"/api/outputs/">> \o expected

\* An agentic job completed from a discovered file of another name.
C24_Witness ==
    \E id \in DOMAIN jobs :
        /\ mode = "agentic"
        /\ jobs[id].status = "completed"
        /\ task[id].found = FinalMp4
        /\ (VideoPrefix \o id \o DotMp4) \in DOMAIN outputs
        /\ outputs[VideoPrefix \o id \o DotMp4].from = FinalMp4

\* C25: no step taken while the service runs the agentic driver creates,
\* modifies or deletes anything in the project directory (its out/, its
\* src/configs/, the directory itself); the driver's writes go to the work
\* directories and the output store.
C25_ProjectReadOnly ==
    [][mode = "agentic" =>
          /\ projectDir' = projectDir
          /\ projOut' = projOut
          /\ signal' = signal]_vars

\* An agentic job ran to completion, wrote its work directory and the output
\* store, and the project holds nothing of it.
C25_Witness ==
    \E t \in DOMAIN task :
        /\ mode = "agentic"
        /\ projectDir
        /\ task[t].pc = "done"
        /\ task[t].cleanup = "failed"
        /\ work[t].exists
        /\ (VideoPrefix \o t \o DotMp4) \in DOMAIN outputs
        /\ projOut = {}
        /\ signal = <<>>

\* C26: while the agent subprocess of an agentic job has started and not yet
\* exited, the job's work directory is the one its own setup made: nothing
\* of a previous attempt in it, out/ present and empty; and from setup to
\* the agent's start the directory holds nothing stale either.  So whatever
\* discovery finds in out/ was put there during the agent run.
C26_FreshWorkDirAtAgentStart ==
    \A t \in DOMAIN task :
        /\ (mode = "agentic" /\ task[t].pc = "proc" /\ task[t].rc = -1) =>
              LET w == work[WorkJobId(PropsPath(t))]
              IN  w.exists /\ ~w.stale /\ w.outdir /\ w.out = <<>>
        /\ (mode = "agentic" /\ task[t].pc \in {"audio", "brief", "proc"}) =>
              ~work[WorkJobId(PropsPath(t))].stale

\* The setup found a directory of a previous attempt at the job's path, and
\* the agent has started on a fresh one.
C26_Witness ==
    \E t \in DOMAIN task :
        /\ mode = "agentic"
        /\ task[t].replaced
        /\ task[t].pc = "proc"
        /\ task[t].rc = -1
        /\ work[WorkJobId(PropsPath(t))] = FreshWorkDir

C28_PlacementNeverRaises ==
    \A i \in 1..Len(passes) : ~passes[i].raised

\* C29: with collaborator calls that return or raise and subprocesses that
\* exit, every submitted job eventually has status completed or failed,
\* whatever the other job does meanwhile.
C29_EveryJobEnds ==
    \A id \in JobIds :
        (id \in DOMAIN jobs) ~> (id \in DOMAIN jobs /\ jobs[id].status \in Terminal)

\* Both jobs were submitted and both have ended, one each way.
C29_Witness ==
    /\ DOMAIN jobs = JobIds
    /\ \A id \in JobIds : task[id].pc \in {"done", "failed"}
    /\ \E a \in JobIds, b \in JobIds :
          /\ jobs[a].status = "completed" /\ jobs[b].status = "failed"
          /\ task[b].raisedAt = "analyzing"
    /\ loop = Free

\* C30: in every state and for every job, video_path is set exactly when
\* the status is completed, the stage is done exactly when the status is
\* completed, and message is set exactly when the status is completed or
\* failed (the empty text of an exception without arguments is a message).
C30_RecordShape ==
    \A id \in DOMAIN jobs :
        /\ jobs[id].video_path # None <=> jobs[id].status = "completed"
        /\ jobs[id].stage = "done" <=> jobs[id].status = "completed"
        /\ jobs[id].message # None <=> jobs[id].status \in Terminal

\* One job completed, another failed on an exception without text.
C30_Witness ==
    \E a \in DOMAIN jobs, b \in DOMAIN jobs :
        /\ jobs[a].status = "completed" /\ jobs[a].video_path # None
        /\ jobs[b].status = "failed" /\ jobs[b].message = <<>>
        /\ jobs[b].video_path = None /\ jobs[b].stage # "done"

====
